---- MODULE Spec2Model ----
(***************************************************************************)
(* The redo-log write set of RingSTM (tm/WriteSet.hpp): a hashed index     *)
(* (open addressing, linear probing, version-stamped slots) over an        *)
(* append-only list of address/value entries, together with the program    *)
(* memory that writeback publishes to.                                     *)
(***************************************************************************)
EXTENDS Integers, Sequences, FiniteSets, TLC

(* ------------------------------ bounds --------------------------------- *)
\* no insert() appends once this many entries were appended in all
MaxAppends == 3
\* the largest value of the version counter (SIZE_MAX, scaled down)
VersionMax == 2
\* every word of memory before any writeback (a value a write may also store)
InitWord == 1

(* ----------------------------- constants ------------------------------- *)
\* 2654435769 = SHi * 2^16 + SLo, the multiplier of hash()
SHi == 40503
SLo == 31161
\* hash() keeps the low 32 bits of the product
WordBits == 32
\* load factor used by insert() and by the constructor
LoadFactor == 3
\* NULL, the address of a default-constructed index_t
NULL == 0

\* address handles; 1, 9 and 22 share a bucket while the index has 4 or 8
\* slots, 1 and 22 still share one when it has 16 or 32
Addrs == {1, 9, 22}
\* the words a transaction writes
Values == {1, 2}
\* the initial_capacity arguments the constructor is called with
InitialCapacities == {1, 2}
\* malloc'ed list cells that were never assigned
Uninit == [addr |-> NULL, val |-> 0]
\* reference-map marker for "no binding"
None == NULL

\* size_t arithmetic is modulo VersionMod
VersionMod == VersionMax + 1

VARIABLES
    index,      \* index_t* index: slot number -> [version, address, index]
    shift,      \* size_t shift
    ilength,    \* size_t ilength
    version,    \* size_t version
    list,       \* WriteSetEntry* list: position -> [addr, val]
    capacity,   \* size_t capacity
    lsize,      \* size_t lsize
    mem,        \* program memory: address -> word
    ref,        \* reference map: address -> latest inserted value or None
    inserted,   \* addresses inserted since the last reset
    appends     \* list entries appended since construction

ws   == <<index, shift, ilength, version, list, capacity, lsize>>
vars == <<index, shift, ilength, version, list, capacity, lsize, mem,
          ref, inserted, appends>>

(* ------------------------- WordLoggingWriteSetEntry --------------------- *)
WriteSetEntry(paddr, pval) == [addr |-> paddr, val |-> pval]

\* update(rhs) that keeps the earlier value
updateKeepingOld(e, rhs) == e

\* update(rhs): coalesce a write-after-write
update(e, rhs) == [e EXCEPT !.val = rhs.val]

\* writeback(): *addr = val
EntryWriteback(m, e) == [m EXCEPT ![e.addr] = e.val]

\* validate(): *addr == val
EntryValidate(m, e) == m[e.addr] = e.val

(* -------------------------------- index -------------------------------- *)
index_t == [version |-> 0, address |-> NULL, index |-> 0]

\* the hash without & 0xFFFFFFFF
hashUnmasked(key, sh) ==
    LET lo == key * SLo
        hi == key * SHi + (lo \div 65536)
    IN  IF sh >= 16 THEN hi \div (2 ^ (sh - 16))
        ELSE hi * (2 ^ (16 - sh)) + ((lo % 65536) \div (2 ^ sh))

\* (key * 2654435769) & 0xFFFFFFFF, then >> sh; computed in 16-bit halves
hash(key, sh) ==
    LET lo == key * SLo
        hi == (key * SHi + (lo \div 65536)) % 65536
    IN  IF sh >= 16 THEN hi \div (2 ^ (sh - 16))
        ELSE hi * (2 ^ (16 - sh)) + ((lo % 65536) \div (2 ^ sh))

\* the probe loop shared by find, insert and remove: advance while the slot
\* is live and holds another address; -1 when the loop never exits
RECURSIVE Probe(_, _, _, _, _, _)
Probe(idx, ver, ilen, a, h, fuel) ==
    IF idx[h].version = ver /\ idx[h].address # a
    THEN IF fuel = 0 THEN -1
         ELSE Probe(idx, ver, ilen, a, (h + 1) % ilen, fuel - 1)
    ELSE h

ProbeStop(a) == Probe(index, version, ilength, a, hash(a, shift), ilength)

\* the slot the probe stopped at is live, hence holds a
Hit(a) == ProbeStop(a) # -1 /\ index[ProbeStop(a)].version = version

\* find(log): the bool result and the value stored into log.val
find_found(a) == Hit(a)
find_val(a) == IF Hit(a) THEN list[index[ProbeStop(a)].index].val ELSE 0

size == lsize

(* ----------------- constructor, resize, rebuild, reset_internal -------- *)
\* doubleIndexLength(): one bit less of shift, twice the slots
doubleShift(sh) == sh - 1
lengthOf(sh) == 2 ^ (WordBits - sh)

\* the constructor doubles the index until it holds LoadFactor times the
\* initial capacity
RECURSIVE initialShift(_, _)
initialShift(sh, initial_capacity) ==
    IF (IF sh = WordBits THEN 0 ELSE lengthOf(sh)) < LoadFactor * initial_capacity
    THEN initialShift(doubleShift(sh), initial_capacity)
    ELSE sh

\* resize(): twice the capacity, the lsize entries in use copied in order
resize(lst, cap, n) ==
    [i \in 0..(2 * cap - 1) |-> IF i < n THEN lst[i] ELSE Uninit]

\* the version the constructor, rebuild() and reset_internal() start from
FirstVersion == 1

\* rebuild(): first free slot at or after h in the table being filled
RECURSIVE NextFree(_, _, _, _, _)
NextFree(idx, ver, ilen, h, fuel) ==
    IF idx[h].version = ver
    THEN IF fuel = 0 THEN -1 ELSE NextFree(idx, ver, ilen, (h + 1) % ilen, fuel - 1)
    ELSE h

\* rebuild(): bind list[i..n-1], in list order, in the fresh table
RECURSIVE Reinsert(_, _, _, _, _, _, _)
Reinsert(idx, ver, ilen, sh, lst, i, n) ==
    IF i >= n THEN idx
    ELSE LET h == NextFree(idx, ver, ilen, hash(lst[i].addr, sh), ilen)
         IN  Reinsert([idx EXCEPT ![h] = [version |-> ver,
                                          address |-> lst[i].addr,
                                          index   |-> i]],
                      ver, ilen, sh, lst, i + 1, n)

\* rebuild(): the doubled, fresh table with every list entry bound again
rebuild(sh, lst, n) ==
    LET nsh  == doubleShift(sh)
        nlen == lengthOf(nsh)
    IN  Reinsert([h \in 0..(nlen - 1) |-> index_t], FirstVersion, nlen, nsh, lst, 0, n)

\* reset_internal(): memset of the whole index
reset_internal(ilen) == [h \in 0..(ilen - 1) |-> index_t]

(* ------------------------------ constructor ---------------------------- *)
Init ==
    \E initial_capacity \in InitialCapacities :
        /\ shift = initialShift(WordBits, initial_capacity)
        /\ ilength = lengthOf(shift)
        /\ index = [h \in 0..(ilength - 1) |-> index_t]
        /\ version = FirstVersion
        /\ capacity = initial_capacity
        /\ list = [i \in 0..(capacity - 1) |-> Uninit]
        /\ lsize = 0
        /\ mem = [a \in Addrs |-> InitWord]
        /\ ref = [a \in Addrs |-> None]
        /\ inserted = {}
        /\ appends = 0

(* ------------------------------ operations ----------------------------- *)
\* insert(log): true iff the probe ends on a live slot holding log.addr
insert_ret(a) == Hit(a)

\* insert(log), the coalescing branch: the probe found a live slot for a
InsertUpdate(a, v) ==
    /\ list' = [list EXCEPT ![index[ProbeStop(a)].index] =
                                update(@, WriteSetEntry(a, v))]
    /\ UNCHANGED <<index, shift, ilength, version, capacity, lsize, appends>>

\* the new-binding branch with the slot bound after lsize was advanced
InsertAppendBindingLate(a, v) ==
    LET h     == ProbeStop(a)
        list1 == [list EXCEPT ![lsize] = WriteSetEntry(a, v)]
        n     == lsize + 1
        idx1  == [index EXCEPT ![h] = [version |-> version,
                                       address |-> a,
                                       index   |-> n]]
        full  == n = capacity
        list2 == IF full THEN resize(list1, capacity, n) ELSE list1
        load  == n * LoadFactor >= ilength
    IN  /\ lsize' = n
        /\ list' = list2
        /\ capacity' = IF full THEN 2 * capacity ELSE capacity
        /\ index' = IF load THEN rebuild(shift, list2, n) ELSE idx1
        /\ shift' = IF load THEN doubleShift(shift) ELSE shift
        /\ ilength' = IF load THEN lengthOf(doubleShift(shift)) ELSE ilength
        /\ version' = IF load THEN FirstVersion ELSE version
        /\ appends' = appends + 1

\* the new-binding branch with the load factor tested on the old lsize
InsertAppendLoadTestedEarly(a, v) ==
    LET h     == ProbeStop(a)
        list1 == [list EXCEPT ![lsize] = WriteSetEntry(a, v)]
        idx1  == [index EXCEPT ![h] = [version |-> version,
                                       address |-> a,
                                       index   |-> lsize]]
        n     == lsize + 1
        full  == n = capacity
        list2 == IF full THEN resize(list1, capacity, n) ELSE list1
        load  == lsize * LoadFactor >= ilength
    IN  /\ lsize' = n
        /\ list' = list2
        /\ capacity' = IF full THEN 2 * capacity ELSE capacity
        /\ index' = IF load THEN rebuild(shift, list2, n) ELSE idx1
        /\ shift' = IF load THEN doubleShift(shift) ELSE shift
        /\ ilength' = IF load THEN lengthOf(doubleShift(shift)) ELSE ilength
        /\ version' = IF load THEN FirstVersion ELSE version
        /\ appends' = appends + 1

\* the new-binding branch with resize() only once lsize is past capacity
InsertAppendResizingLate(a, v) ==
    LET h     == ProbeStop(a)
        list1 == [list EXCEPT ![lsize] = WriteSetEntry(a, v)]
        idx1  == [index EXCEPT ![h] = [version |-> version,
                                       address |-> a,
                                       index   |-> lsize]]
        n     == lsize + 1
        full  == n > capacity
        list2 == IF full THEN resize(list1, capacity, n) ELSE list1
        load  == n * LoadFactor >= ilength
    IN  /\ lsize' = n
        /\ list' = list2
        /\ capacity' = IF full THEN 2 * capacity ELSE capacity
        /\ index' = IF load THEN rebuild(shift, list2, n) ELSE idx1
        /\ shift' = IF load THEN doubleShift(shift) ELSE shift
        /\ ilength' = IF load THEN lengthOf(doubleShift(shift)) ELSE ilength
        /\ version' = IF load THEN FirstVersion ELSE version
        /\ appends' = appends + 1

\* insert(log), the new-binding branch: append, bind the free slot, then
\* resize() when the list is full and rebuild() at the load factor
InsertAppend(a, v) ==
    LET h     == ProbeStop(a)
        list1 == [list EXCEPT ![lsize] = WriteSetEntry(a, v)]
        idx1  == [index EXCEPT ![h] = [version |-> version,
                                       address |-> a,
                                       index   |-> lsize]]
        n     == lsize + 1
        full  == n = capacity
        list2 == IF full THEN resize(list1, capacity, n) ELSE list1
        load  == n * LoadFactor >= ilength
    IN  /\ lsize' = n
        /\ list' = list2
        /\ capacity' = IF full THEN 2 * capacity ELSE capacity
        /\ index' = IF load THEN rebuild(shift, list2, n) ELSE idx1
        /\ shift' = IF load THEN doubleShift(shift) ELSE shift
        /\ ilength' = IF load THEN lengthOf(doubleShift(shift)) ELSE ilength
        /\ version' = IF load THEN FirstVersion ELSE version
        /\ appends' = appends + 1

\* insert(log) that also stores the value at its address at once
InsertWritingThrough(a, v) ==
    /\ insert_ret(a) \/ appends < MaxAppends
    /\ ProbeStop(a) # -1
    /\ IF insert_ret(a) THEN InsertUpdate(a, v) ELSE InsertAppend(a, v)
    /\ ref' = [ref EXCEPT ![a] = v]
    /\ inserted' = inserted \cup {a}
    /\ mem' = [mem EXCEPT ![a] = v]

Insert(a, v) ==
    /\ insert_ret(a) \/ appends < MaxAppends
    /\ ProbeStop(a) # -1
    /\ IF insert_ret(a) THEN InsertUpdate(a, v) ELSE InsertAppend(a, v)
    /\ ref' = [ref EXCEPT ![a] = v]
    /\ inserted' = inserted \cup {a}
    /\ UNCHANGED mem

\* find(log) is const
Find(a) ==
    /\ ProbeStop(a) # -1
    /\ UNCHANGED vars

\* remove(log) that wipes the whole slot
RemoveSlotClearing(idx, h) == [idx EXCEPT ![h] = index_t]

\* remove(log): the version of the slot bound to a drops below current
RemoveSlot(idx, h) == [idx EXCEPT ![h].version = @ - 1]

\* remove(log) that also takes the removed binding off size()
RemoveShrinking(a) ==
    /\ ProbeStop(a) # -1
    /\ index' = IF Hit(a) THEN RemoveSlot(index, ProbeStop(a)) ELSE index
    /\ lsize' = IF Hit(a) THEN lsize - 1 ELSE lsize
    /\ ref' = [ref EXCEPT ![a] = None]
    /\ UNCHANGED <<shift, ilength, version, list, capacity, mem,
                   inserted, appends>>

Remove(a) ==
    /\ UNCHANGED <<shift, ilength, version, list, capacity, lsize, mem,
                   inserted, appends>>
    /\ ref' = [ref EXCEPT ![a] = None]
    /\ ProbeStop(a) # -1
    /\ index' = IF Hit(a) THEN RemoveSlot(index, ProbeStop(a)) ELSE index

\* size() is const
Size == UNCHANGED vars

\* version += 1 left out
NextVersionStuck(v) == v

\* reset(): O(1) unless the version wraps to 0
NextVersion(v) == (v + 1) % VersionMod

\* reset() without the overflow check and reset_internal()
ResetWithoutOverflowCheck ==
    /\ lsize' = 0
    /\ version' = NextVersion(version)
    /\ UNCHANGED index
    /\ ref' = [a \in Addrs |-> None]
    /\ inserted' = {}
    /\ UNCHANGED <<shift, ilength, list, capacity, mem, appends>>

Reset ==
    /\ lsize' = 0
    /\ version' = IF NextVersion(version) # 0 THEN NextVersion(version)
                ELSE FirstVersion
    /\ index' = IF NextVersion(version) # 0 THEN index ELSE reset_internal(ilength)
    /\ ref' = [a \in Addrs |-> None]
    /\ inserted' = {}
    /\ UNCHANGED <<shift, ilength, list, capacity, mem, appends>>

\* writeback(): perform list[i..n-1] in list order
RECURSIVE WritebackFrom(_, _, _, _)
WritebackFrom(m, lst, i, n) ==
    IF i >= n THEN m
    ELSE WritebackFrom(EntryWriteback(m, lst[i]), lst, i + 1, n)

Writeback ==
    /\ mem' = WritebackFrom(mem, list, 0, lsize)
    /\ UNCHANGED <<ws, ref, inserted, appends>>

\* filter(lower, upper) under STM_PROTECT_STACK: the entry's word lies in the
\* protected region [lower, upper)
filter(e, lower, upper) == lower <= e.addr /\ e.addr < upper

\* writeback(upper_stack_bound): filtered entries are skipped
RECURSIVE WritebackFilteredFrom(_, _, _, _, _, _)
WritebackFilteredFrom(m, lst, i, n, lower, upper) ==
    IF i >= n THEN m
    ELSE IF filter(lst[i], lower, upper)
         THEN WritebackFilteredFrom(m, lst, i + 1, n, lower, upper)
         ELSE WritebackFilteredFrom(EntryWriteback(m, lst[i]), lst, i + 1, n,
                                    lower, upper)

\* lower is the top of the stack when writeback runs, upper its argument
WritebackProtected(lower, upper) ==
    /\ mem' = WritebackFilteredFrom(mem, list, 0, lsize, lower, upper)
    /\ UNCHANGED <<ws, ref, inserted, appends>>

\* validate(): false at the first entry whose word differs
RECURSIVE ValidateFrom(_, _, _, _)
ValidateFrom(m, lst, i, n) ==
    IF i >= n THEN TRUE
    ELSE IF ~EntryValidate(m, lst[i]) THEN FALSE
    ELSE ValidateFrom(m, lst, i + 1, n)

validate == ValidateFrom(mem, list, 0, lsize)

\* validate() changes nothing
Validate == UNCHANGED vars

\* rollback() without STM_ABORT_ON_THROW
Rollback == UNCHANGED vars

Next ==
    \/ \E a \in Addrs, v \in Values : Insert(a, v)
    \/ \E a \in Addrs : Find(a)
    \/ \E a \in Addrs : Remove(a)
    \/ Size
    \/ Reset
    \/ Writeback
    \/ \E lower \in Addrs, upper \in {a + 1 : a \in Addrs} :
           lower < upper /\ WritebackProtected(lower, upper)
    \/ Validate
    \/ Rollback

Spec == Init /\ [][Next]_vars

\* the same program when the executor never calls remove()
NextNoRemove ==
    \/ \E a \in Addrs, v \in Values : Insert(a, v)
    \/ \E a \in Addrs : Find(a)
    \/ Size
    \/ Reset
    \/ Writeback
    \/ \E lower \in Addrs, upper \in {a + 1 : a \in Addrs} :
           lower < upper /\ WritebackProtected(lower, upper)
    \/ Validate
    \/ Rollback

SpecNoRemove == Init /\ [][NextNoRemove]_vars

(* ------------------------------- properties ---------------------------- *)
\* addresses bound in the reference map
Bound == {a \in Addrs : ref[a] # None}

\* live slots of the index
Live == {h \in DOMAIN index : index[h].version = version}

\* C1: every address whose latest operation in this attempt was
\* insert(A, v) is found by find(A), with value v
C1_FindReportsLatest ==
    \A a \in Bound : find_found(a) /\ find_val(a) = ref[a]

\* C2: insert(A, v) returns true exactly when A is bound in this attempt;
\* then size() is unchanged and A is bound to v; otherwise size() grows by
\* one and A is newly bound to v
C2_InsertContract ==
    [][\A a \in Addrs, v \in Values : Insert(a, v) =>
          /\ insert_ret(a) <=> (a \in Bound)
          /\ insert_ret(a) => lsize' = lsize
          /\ ~insert_ret(a) => lsize' = lsize + 1
          /\ find_found(a)' /\ find_val(a)' = v]_vars

\* C3: an address not inserted since the last reset (or construction) is
\* not found, whatever earlier attempts left in the tables, and size() is 0
\* as long as nothing was inserted
C3_ResetEmpties ==
    /\ \A a \in Addrs \ inserted : ~find_found(a)
    /\ inserted = {} => size = 0

\* C3 happens: an attempt is under way over slots and list cells left by an
\* earlier attempt, for an address this attempt has not inserted
C3_Witness ==
    /\ version > 1
    /\ inserted # {}
    /\ \E h \in DOMAIN index :
          /\ index[h].address \in Addrs \ inserted
          /\ index[h].index >= lsize
          /\ list[index[h].index].addr = index[h].address

\* C4: size() is the number of distinct addresses inserted since the last
\* reset
C4_SizeCountsDistinct == size = Cardinality(inserted)

\* C5: when writeback() returns, the word at every address find() reports
\* as buffered is the value find() reports
C5_WritebackPublishes ==
    [][Writeback =>
          \A a \in Addrs : find_found(a)' => mem'[a] = find_val(a)']_vars

\* C6: validate() called when writeback() has returned gives true
C6_ValidateAfterWriteback == [][Writeback => validate']_vars

\* C7: only writeback changes program memory, and rollback() changes
\* neither memory nor the write set
C7_OnlyWritebackWrites ==
    [][/\ mem' # mem =>
             \/ Writeback
             \/ \E lower \in Addrs, upper \in {a + 1 : a \in Addrs} :
                    lower < upper /\ WritebackProtected(lower, upper)
       /\ Rollback => UNCHANGED <<ws, mem>>]_vars

\* C7 happens: bindings are buffered whose values memory does not hold
C7_Witness ==
    \E a \in Bound : find_found(a) /\ mem[a] # find_val(a) /\ lsize >= 2

\* C8: without remove, find and size() agree with the reference map
C8_RefinesMap ==
    /\ \A a \in Addrs : find_found(a) <=> (a \in Bound)
    /\ \A a \in Bound : find_val(a) = ref[a]
    /\ size = Cardinality(Bound)

\* C8 happens: two addresses of one bucket are bound, in the order they
\* were inserted, after the list was resized and the index rebuilt
C8_Witness ==
    /\ ilength >= 16
    /\ capacity >= 4
    /\ {1, 22} \subseteq Bound
    /\ hash(1, shift) = hash(22, shift)
    /\ size = 3
    /\ list[0].addr = 22
    /\ index[ProbeStop(1)].index > index[ProbeStop(22)].index
    /\ ProbeStop(1) # hash(1, shift)

\* C9: writeback with a protected region leaves the word of every buffered
\* address inside the region alone and publishes the buffered value of
\* every buffered address outside it
C9_ProtectedWriteback ==
    [][\A lower \in Addrs, upper \in {a + 1 : a \in Addrs} :
          (lower < upper /\ WritebackProtected(lower, upper)) =>
              \A a \in Addrs : find_found(a) =>
                  /\ (lower <= a /\ a < upper) => mem'[a] = mem[a]
                  /\ ~(lower <= a /\ a < upper) => mem'[a] = find_val(a)]_vars

\* C10: size() is 0 exactly while nothing was inserted since the last
\* reset, and only reset takes size() back to 0
C10_EmptyOnlyByReset ==
    /\ [](size = 0 <=> inserted = {})
    /\ [][(size > 0 /\ size' = 0) => Reset]_vars

\* C10 happens: every binding of the attempt was removed
C10_Witness ==
    /\ inserted # {}
    /\ Bound = {}
    /\ Live = {}
    /\ size >= 2

\* addresses held by a live slot
LiveAddrs == {index[h].address : h \in Live}

\* C11: no two live slots hold the same address
C11_OneLiveSlotPerAddress ==
    \A h1, h2 \in Live : index[h1].address = index[h2].address => h1 = h2

\* C12: size() is the number of live slots and the number of list
\* positions in use
C12_SizeCountsLiveSlots == size = Cardinality(Live) /\ size = lsize

\* C13: every live slot points into the list in use, at an entry of its own
\* address
C13_LiveSlotsPointAtTheirEntry ==
    \A h \in Live :
        /\ index[h].index < size
        /\ list[index[h].index].addr = index[h].address

\* C13 happens: live slots remain next to a removed one after the list
\* was resized and the index rebuilt
C13_Witness ==
    /\ ilength >= 16
    /\ capacity >= 4
    /\ Cardinality(Live) >= 2
    /\ \E h \in DOMAIN index \ Live :
          index[h].address \in inserted /\ index[h].version = version - 1

\* C14: between operations LoadFactor times the entries in use, and so
\* LoadFactor times the live slots, stays below the index length
C14_LoadBelowIndexLength ==
    /\ size * LoadFactor < ilength
    /\ Cardinality(Live) * LoadFactor < ilength

\* C14 happens: the last append reached the load factor of the old index
\* and rebuild() doubled it
C14_Witness ==
    /\ ilength >= 16
    /\ size * LoadFactor >= ilength \div 2
    /\ Cardinality(Live) = size

\* C17: between operations size() is below the capacity of the list, so
\* the append list[lsize] = log of the next insert is inside the list
C17_AppendWithinList ==
    /\ size < capacity
    /\ DOMAIN list = 0..(capacity - 1)

\* C17 happens: the last append filled the list and resize() doubled it
C17_Witness ==
    /\ capacity >= 4
    /\ size = capacity \div 2
    /\ list[size - 1].addr # NULL

\* C15: an address that was inserted in this attempt and whose latest
\* operation is remove is not found
C15_RemovedStaysRemoved ==
    \A a \in inserted \ Bound : ~find_found(a)

\* C16: writeback() leaves the word at every address that no live slot
\* holds as it was
C16_WritebackOnlyLive ==
    [][Writeback => \A a \in Addrs \ LiveAddrs : mem'[a] = mem[a]]_vars

\* C18: a reset() whose version += 1 wraps to 0 leaves a non-zero version,
\* no live slot and size() 0, and find and insert see no binding
C18_WrapClearsIndex ==
    [][(Reset /\ NextVersion(version) = 0) =>
          /\ version' # 0
          /\ Live' = {}
          /\ size' = 0
          /\ \A a \in Addrs : ~find_found(a)' /\ ~insert_ret(a)']_vars

\* C18 happens: entries were appended and the index is physically clear
\* after the reset() that wrapped
C18_Witness ==
    /\ appends > 0
    /\ size = 0
    /\ version = FirstVersion
    /\ list[0].addr # NULL
    /\ \A h \in DOMAIN index : index[h] = index_t

\* C19: a remove(A) that changes anything changes the version tag of
\* exactly one slot, a live slot holding A that the probe reaches, which drops
\* by one; the list, size(), the version, the index length and every other
\* slot stay, so nothing changes when the probe finds no live slot for A
C19_RemoveFrame ==
    [][vars' # vars => \A a \in Addrs : Remove(a) =>
          /\ UNCHANGED <<list, lsize, version, ilength, shift, capacity, mem>>
          /\ index' # index =>
                LET changed == {h \in DOMAIN index' : index'[h] # index[h]}
                IN  /\ DOMAIN index' = DOMAIN index
                    /\ find_found(a)
                    /\ Cardinality(changed) = 1
                    /\ \A h \in changed :
                          /\ index[h].address = a
                          /\ index[h].version = version
                          /\ index'[h] =
                                [index[h] EXCEPT !.version = version - 1]]_vars

\* C19 happens: a slot of a removed address sits one below the current
\* version, with its address and list position kept, next to a live slot
C19_Witness ==
    \E h \in DOMAIN index \ Live :
        /\ index[h].address \in inserted \ Bound
        /\ index[h].version = version - 1
        /\ index[h].index < size
        /\ list[index[h].index].addr = index[h].address
        /\ Live # {}

\* C20: the probe loops of find, insert and remove end: hash(address) is a
\* slot of the index, the index has a slot that is not live, the probe for
\* every address stops, and the slot remove decrements is no longer live
C20_ProbesTerminate ==
    /\ \A a \in Addrs : hash(a, shift) \in 0..(ilength - 1)
    /\ DOMAIN index = 0..(ilength - 1)
    /\ Cardinality(Live) < ilength
    /\ \A a \in Addrs : ProbeStop(a) # -1
    /\ \A a \in Addrs : Hit(a) =>
          RemoveSlot(index, ProbeStop(a))[ProbeStop(a)].version # version

\* C20 happens: one probe went past a live slot of another address before it
\* found its own, another went past live slots to a slot that is not live
C20_Witness ==
    /\ \E a \in Addrs : Hit(a) /\ ProbeStop(a) # hash(a, shift)
    /\ \E a \in Addrs : ~Hit(a) /\ ProbeStop(a) # hash(a, shift)

====
